---- MODULE Spec2Model ----
(***************************************************************************)
(* A model of the "simplify" visitor plugin (src/simplify-plugin/index.js).*)
(* AST nodes are records tagged by "type".  The visitor hooks are          *)
(* operators and actions translated from the plugin's hook functions; the  *)
(* path handle (container, key, siblings) is the state they act on.        *)
(***************************************************************************)
EXTENDS Integers, Sequences, FiniteSets, TLC

VARIABLES
  input,          \* the tree / statement list handed to the operation
  container,      \* this.container: the statement list holding the path
  key,            \* this.key: 0-based index of the path in container
  path,           \* the rest of the path handle: inList, parent chain, predicates
  pc,             \* position of the handler / driver
  statements,     \* toMultipleSequenceExpressions: statements still to fold
  retStatements,  \* toMultipleSequenceExpressions: retStatements
  bailed,         \* toMultipleSequenceExpressions: bailed
  tree,           \* the node at the driver's current position
  changed,        \* whether a rule changed the tree in the current pass
  firstPass       \* the tree after the first pass

vars == <<input, container, key, path, pc, statements, retStatements, bailed,
          tree, changed, firstPass>>

(***************************************************************************)
(* Bounds of the model.                                                    *)
(***************************************************************************)
MaxLen == 3        \* longest statement list handed to the sequence folder
MaxBlockLen == 2   \* longest body of a block nested in such a list
MaxAfter == 2      \* most siblings following the visited IfStatement
MaxList == 3       \* longest statement list of declarations and loops traversed

(***************************************************************************)
(* JavaScript values that are not nodes.                                   *)
(***************************************************************************)
Null == [type |-> "null"]
Undefined == [type |-> "undefined"]
Truthy(n) == n.type \notin {"null", "undefined"}

\* list[i] and list.slice(from) with the code's 0-based indices
At(list, i) == IF i >= 0 /\ i < Len(list) THEN list[i + 1] ELSE Undefined
slice(list, from) == SubSeq(list, from + 1, Len(list))

(***************************************************************************)
(* Node builders (the t.* builders the plugin calls).                      *)
(***************************************************************************)
identifier(name) == [type |-> "Identifier", name |-> name]
literal(value) == [type |-> "Literal", value |-> value]
unaryExpression(operator, argument, prefix) ==
  [type |-> "UnaryExpression", operator |-> operator, argument |-> argument,
   prefix |-> prefix]
binaryExpression(operator, left, right) ==
  [type |-> "BinaryExpression", operator |-> operator, left |-> left, right |-> right]
logicalExpression(operator, left, right) ==
  [type |-> "LogicalExpression", operator |-> operator, left |-> left, right |-> right]
conditionalExpression(test, consequent, alternate) ==
  [type |-> "ConditionalExpression", test |-> test, consequent |-> consequent,
   alternate |-> alternate]
sequenceExpression(expressions) ==
  [type |-> "SequenceExpression", expressions |-> expressions]
expressionStatement(expression) ==
  [type |-> "ExpressionStatement", expression |-> expression]
returnStatement(argument) == [type |-> "ReturnStatement", argument |-> argument]
blockStatement(body) == [type |-> "BlockStatement", body |-> body]
ifStatement(test, consequent, alternate) ==
  [type |-> "IfStatement", test |-> test, consequent |-> consequent,
   alternate |-> alternate]
forStatement(init, test, update, body) ==
  [type |-> "ForStatement", init |-> init, test |-> test, update |-> update,
   body |-> body]
\* a for-in loop has no init; the property reads as undefined until assigned
forInStatement(left, right, body) ==
  [type |-> "ForInStatement", left |-> left, right |-> right, body |-> body,
   init |-> Undefined]
whileStatement(test, body) == [type |-> "WhileStatement", test |-> test, body |-> body]
variableDeclaration(kind, declarations) ==
  [type |-> "VariableDeclaration", kind |-> kind, declarations |-> declarations]
functionDeclaration(id) == [type |-> "FunctionDeclaration", id |-> id]
debuggerStatement == [type |-> "DebuggerStatement"]

VOID_0 == unaryExpression("void", literal("0"), TRUE)

ExpressionTypes ==
  {"Identifier", "Literal", "UnaryExpression", "BinaryExpression",
   "LogicalExpression", "ConditionalExpression", "SequenceExpression"}
StatementTypes ==
  {"ExpressionStatement", "ReturnStatement", "BlockStatement", "IfStatement",
   "ForStatement", "ForInStatement", "WhileStatement", "VariableDeclaration",
   "FunctionDeclaration", "DebuggerStatement"}

isExpression(n) == n.type \in ExpressionTypes
isStatement(n) == n.type \in StatementTypes
isExpressionStatement(n) == n.type = "ExpressionStatement"
isReturnStatement(n) == n.type = "ReturnStatement"
isBlockStatement(n) == n.type = "BlockStatement"
isIfStatement(n) == n.type = "IfStatement"
isForStatement(n) == n.type = "ForStatement"
isSequenceExpression(n) == n.type = "SequenceExpression"
isBinaryExpression(n) == n.type = "BinaryExpression"
isFunctionDeclaration(n) == n.type = "FunctionDeclaration"
isVariableDeclaration(n) == n.type = "VariableDeclaration"
isVariableDeclarationOfKind(n, kind) ==
  n.type = "VariableDeclaration" /\ n.kind = kind
isUnaryNot(n) == n.type = "UnaryExpression" /\ n.operator = "!"

(***************************************************************************)
(* The sequence folder: convert and toMultipleSequenceExpressions.         *)
(***************************************************************************)
\* the "seq" convert builds from the expressions accumulated so far
seqOf(exprs) ==
  IF Len(exprs) = 1 THEN exprs[1]
  ELSE IF Len(exprs) > 0 THEN sequenceExpression(exprs)
  ELSE Undefined

RECURSIVE convertFrom(_, _, _)
\* convert's loop from index i on, with exprs accumulated so far
convertFrom(nodes, i, exprs) ==
  IF ~(i < Len(nodes))
  THEN [seq |-> seqOf(exprs), bailed |-> FALSE, bailedAtIndex |-> -1]
  ELSE
    LET node == At(nodes, i)
        bail == [seq |-> seqOf(exprs), bailed |-> TRUE, bailedAtIndex |-> i]
    IN
    IF isExpression(node) THEN convertFrom(nodes, i + 1, Append(exprs, node))
    ELSE IF isExpressionStatement(node)
    THEN convertFrom(nodes, i + 1, Append(exprs, node.expression))
    ELSE IF isIfStatement(node)
    THEN
      LET cres == convertFrom(<<node.consequent>>, 0, <<>>)
          ares == convertFrom(<<node.alternate>>, 0, <<>>)
          consequent == IF Truthy(node.consequent) THEN cres.seq ELSE Undefined
          alternate == IF Truthy(node.alternate) THEN ares.seq ELSE Undefined
      IN
      IF Truthy(node.consequent) /\ cres.bailed THEN bail
      ELSE IF Truthy(node.alternate) /\ ares.bailed THEN bail
      ELSE IF ~Truthy(alternate)
      THEN convertFrom(nodes, i + 1,
             Append(exprs, logicalExpression("&&", node.test, consequent)))
      ELSE IF ~Truthy(consequent)
      THEN convertFrom(nodes, i + 1,
             Append(exprs, logicalExpression("||", node.test, alternate)))
      ELSE convertFrom(nodes, i + 1,
             Append(exprs, conditionalExpression(node.test, consequent, alternate)))
    ELSE IF isBlockStatement(node)
    THEN
      LET res == convertFrom(node.body, 0, <<>>)
      IN IF res.bailed THEN bail
         ELSE convertFrom(nodes, i + 1, Append(exprs, res.seq))
    ELSE bail

convert(nodes) == convertFrom(nodes, 0, <<>>)

\* one iteration of toMultipleSequenceExpressions' do-while body
foldIteration(stmts, ret) ==
  LET res == convert(stmts)
      ret1 == IF Truthy(res.seq) THEN Append(ret, expressionStatement(res.seq))
              ELSE ret
      ret2 == IF res.bailed /\ Truthy(At(stmts, res.bailedAtIndex))
              THEN Append(ret1, At(stmts, res.bailedAtIndex))
              ELSE ret1
      rest == IF res.bailed THEN slice(stmts, res.bailedAtIndex + 1) ELSE stmts
  IN [statements |-> rest, retStatements |-> ret2,
      bailed |-> res.bailed /\ Len(rest) # 0]

RECURSIVE foldLoop(_, _)
foldLoop(stmts, ret) ==
  LET it == foldIteration(stmts, ret)
  IN IF it.bailed THEN foldLoop(it.statements, it.retStatements)
     ELSE it.retStatements

toMultipleSequenceExpressions(stmts) == foldLoop(stmts, <<>>)

(***************************************************************************)
(* SpecFold: the folder run on a statement list, one loop iteration per    *)
(* step.                                                                   *)
(***************************************************************************)
\* sequences over S of length lo..hi
SeqsOf(S, lo, hi) == UNION {[1..n -> S] : n \in lo..hi}

ExprA == expressionStatement(identifier("a"))
ExprB == expressionStatement(identifier("b"))
FoldAtoms == {ExprA, ExprB, returnStatement(Null), blockStatement(<<>>)}
FoldStmts ==
  FoldAtoms
  \cup {blockStatement(b) :
          b \in SeqsOf({ExprA, ExprB, returnStatement(Null)}, 1, MaxBlockLen)}
  \cup {ifStatement(identifier("x"), c, a) :
          c \in {ExprA, returnStatement(Null), blockStatement(<<>>)},
          a \in {Null, ExprB, blockStatement(<<>>)}}

InitFold ==
  /\ input \in SeqsOf(FoldStmts, 0, MaxLen)
  /\ statements = input
  /\ retStatements = <<>>
  /\ bailed = FALSE
  /\ pc = "loop"
  /\ container = <<>> /\ key = 0 /\ path = [inList |-> FALSE]
  /\ tree = Null /\ changed = FALSE /\ firstPass = Null

FoldLoop ==
  /\ pc = "loop"
  /\ LET it == foldIteration(statements, retStatements)
     IN /\ statements' = it.statements
        /\ retStatements' = it.retStatements
        /\ bailed' = it.bailed
        /\ pc' = IF it.bailed THEN "loop" ELSE "return"
  /\ UNCHANGED <<input, container, key, path, tree, changed, firstPass>>

FoldReturn ==
  /\ pc = "return"
  /\ pc' = "done"
  /\ UNCHANGED <<input, container, key, path, statements, retStatements, bailed,
                 tree, changed, firstPass>>

NextFold == FoldLoop \/ FoldReturn
SpecFold == InitFold /\ [][NextFold]_vars

(***************************************************************************)
(* Well-formedness of a tree: every required child is present and of the   *)
(* right syntactic class.                                                  *)
(***************************************************************************)
RECURSIVE WellFormedExpr(_)
WellFormedExpr(e) ==
  IF e.type \in {"Identifier", "Literal"} THEN TRUE
  ELSE IF e.type = "UnaryExpression" THEN WellFormedExpr(e.argument)
  ELSE IF e.type \in {"BinaryExpression", "LogicalExpression"}
  THEN WellFormedExpr(e.left) /\ WellFormedExpr(e.right)
  ELSE IF e.type = "ConditionalExpression"
  THEN WellFormedExpr(e.test) /\ WellFormedExpr(e.consequent)
       /\ WellFormedExpr(e.alternate)
  ELSE IF e.type = "SequenceExpression"
  THEN \A i \in 1..Len(e.expressions) : WellFormedExpr(e.expressions[i])
  ELSE FALSE

RECURSIVE WellFormedStmt(_)
WellFormedStmt(s) ==
  IF s.type = "ExpressionStatement" THEN WellFormedExpr(s.expression)
  ELSE IF s.type = "ReturnStatement"
  THEN s.argument = Null \/ WellFormedExpr(s.argument)
  ELSE IF s.type = "BlockStatement"
  THEN \A i \in 1..Len(s.body) : WellFormedStmt(s.body[i])
  ELSE IF s.type = "IfStatement"
  THEN /\ WellFormedExpr(s.test)
       /\ WellFormedStmt(s.consequent)
       /\ (s.alternate = Null \/ WellFormedStmt(s.alternate))
  ELSE IF s.type = "ForStatement"
  THEN /\ (s.init = Null \/ WellFormedExpr(s.init) \/ isVariableDeclaration(s.init))
       /\ (s.test = Null \/ WellFormedExpr(s.test))
       /\ (s.update = Null \/ WellFormedExpr(s.update))
       /\ WellFormedStmt(s.body)
  ELSE IF s.type = "ForInStatement"
  THEN WellFormedExpr(s.right) /\ WellFormedStmt(s.body)
  ELSE IF s.type = "WhileStatement"
  THEN WellFormedExpr(s.test) /\ WellFormedStmt(s.body)
  ELSE s.type \in {"VariableDeclaration", "FunctionDeclaration", "DebuggerStatement"}

(***************************************************************************)
(* C4.  What the folder is claimed to return.                              *)
(***************************************************************************)
\* a statement that can be expressed as an expression
RECURSIVE IsExpressible(_)
IsExpressible(s) ==
  IF isExpressionStatement(s) THEN TRUE
  ELSE IF isIfStatement(s)
  THEN /\ (~Truthy(s.consequent) \/ IsExpressible(s.consequent))
       /\ (~Truthy(s.alternate) \/ IsExpressible(s.alternate))
  ELSE IF isBlockStatement(s)
  THEN \A i \in 1..Len(s.body) : IsExpressible(s.body[i])
  ELSE FALSE

RECURSIVE FoldedExprs(_)
\* the expressions a list of expressible statements folds to, in source order
FoldedExprs(list) ==
  IF list = <<>> THEN <<>>
  ELSE
    LET s == Head(list)
        one ==
          IF isExpressionStatement(s) THEN <<s.expression>>
          ELSE IF isIfStatement(s)
          THEN LET c == IF Truthy(s.consequent)
                        THEN seqOf(FoldedExprs(<<s.consequent>>)) ELSE Undefined
                   a == IF Truthy(s.alternate)
                        THEN seqOf(FoldedExprs(<<s.alternate>>)) ELSE Undefined
               IN IF ~Truthy(a) THEN <<logicalExpression("&&", s.test, c)>>
                  ELSE IF ~Truthy(c) THEN <<logicalExpression("||", s.test, a)>>
                  ELSE <<conditionalExpression(s.test, c, a)>>
          ELSE IF FoldedExprs(s.body) = <<>> THEN <<>>
          ELSE <<seqOf(FoldedExprs(s.body))>>
    IN one \o FoldedExprs(Tail(list))

RECURSIVE Partition(_, _)
\* blockers verbatim, each maximal non-empty run as one ExpressionStatement
Partition(list, run) ==
  LET flush == IF run = <<>> THEN <<>>
               ELSE <<expressionStatement(seqOf(FoldedExprs(run)))>>
  IN IF list = <<>> THEN flush
     ELSE IF IsExpressible(Head(list))
     THEN Partition(Tail(list), Append(run, Head(list)))
     ELSE flush \o <<Head(list)>> \o Partition(Tail(list), <<>>)

\* C4: the folder returns the blockers of its input verbatim and in order, and
\* one well-formed ExpressionStatement for each maximal run of expressible
\* statements between them; no statement is dropped or duplicated.
C4_FolderPartitionsInput ==
  pc = "done" =>
    /\ retStatements = Partition(input, <<>>)
    /\ \A i \in 1..Len(retStatements) : WellFormedStmt(retStatements[i])

(***************************************************************************)
(* The IfStatement exit hooks, acting on the path (container, key, path).  *)
(***************************************************************************)
\* this.getSibling(i).node: nothing when the path is not in a list
getSibling(cont, p, i) == IF p.inList THEN At(cont, i) ELSE Undefined

\* container with the element at 0-based index i replaced / removed
replaceAt(cont, i, n) == [cont EXCEPT ![i + 1] = n]
removeAt(cont, i) == SubSeq(cont, 1, i) \o SubSeq(cont, i + 2, Len(cont))

\* the driver putting a hook's replacement into the slot of a statement: an
\* expression returned for a statement is wrapped in an ExpressionStatement
replaceWith(cont, i, replacement) ==
  replaceAt(cont, i,
            IF isExpression(replacement) THEN expressionStatement(replacement)
            ELSE replacement)

flipNegation(node) ==
  IF ~Truthy(node.consequent) \/ ~Truthy(node.alternate) THEN node
  ELSE
    LET test == node.test
        flip1 == isBinaryExpression(test) /\ test.operator = "!=="
        test1 == IF flip1 THEN [test EXCEPT !.operator = "==="] ELSE test
        flip2 == isBinaryExpression(test1) /\ test1.operator = "!="
        test2 == IF flip2 THEN [test1 EXCEPT !.operator = "=="] ELSE test1
        flip3 == isUnaryNot(test2)
        test3 == IF flip3 THEN test2.argument ELSE test2
    IN IF flip1 \/ flip2 \/ flip3
       THEN [node EXCEPT !.test = test3, !.consequent = node.alternate,
                         !.alternate = node.consequent]
       ELSE node

coerceIf(node, k) ==
  LET block == node[k]
  IN IF ~Truthy(block) \/ ~isBlockStatement(block) THEN node
     ELSE IF Len(block.body) # 1 THEN node
     ELSE IF isVariableDeclaration(block.body[1]) /\ block.body[1].kind # "let"
     THEN node
     ELSE [node EXCEPT ![k] = block.body[1]]

\* x || VOID_0
orVoid0(x) == IF Truthy(x) THEN x ELSE VOID_0

\* this.insertAfter(nodes) on a path that is in a list: nodes follow the node
insertAfter(cont, k, node, nodes) ==
  SubSeq(cont, 1, k) \o <<node>> \o nodes \o SubSeq(cont, k + 2, Len(cont))

\* IfStatement.exit[0]: the new container, and whether the hook returned a
\* replacement for the node
ifExit0(cont, k, p) ==
  LET node == flipNegation(coerceIf(coerceIf(At(cont, k), "consequent"), "alternate"))
      cont0 == replaceAt(cont, k, node)
      next == getSibling(cont0, p, k + 1)
      replaced(c, n) == [container |-> replaceWith(c, k, n), replaced |-> TRUE]
  IN
  IF /\ Truthy(node.consequent) /\ ~Truthy(node.alternate)
     /\ node.consequent.type = "ExpressionStatement"
     /\ ~p.isCompletionRecord
  THEN replaced(cont0, expressionStatement(
         logicalExpression("&&", node.test, node.consequent.expression)))
  ELSE IF isExpressionStatement(node.consequent) /\ isExpressionStatement(node.alternate)
  THEN replaced(cont0, conditionalExpression(
         node.test, node.consequent.expression, node.alternate.expression))
  ELSE IF /\ isReturnStatement(node.consequent) /\ isReturnStatement(node.alternate)
          /\ ~Truthy(getSibling(cont0, p, k + 1))
  THEN replaced(cont0, returnStatement(conditionalExpression(
         node.test, orVoid0(node.consequent.argument), node.alternate.argument)))
  ELSE IF /\ isReturnStatement(node.consequent) /\ ~Truthy(node.alternate)
          /\ isReturnStatement(next)
  THEN replaced(removeAt(cont0, k + 1), returnStatement(conditionalExpression(
         node.test, orVoid0(node.consequent.argument), next.argument)))
  ELSE IF /\ ~Truthy(getSibling(cont0, p, k + 2))
          /\ isReturnStatement(node.consequent) /\ ~Truthy(node.alternate)
          /\ isExpressionStatement(next)
  THEN LET nextExpr == unaryExpression("void", next.expression, FALSE)
       IN IF Truthy(node.consequent.argument)
          THEN replaced(removeAt(cont0, k + 1), returnStatement(
                 conditionalExpression(node.test, node.consequent.argument, nextExpr)))
          ELSE replaced(removeAt(cont0, k + 1), returnStatement(
                 logicalExpression("||", node.test, nextExpr)))
  ELSE IF /\ Truthy(node.consequent) /\ Truthy(node.alternate)
          /\ \/ isReturnStatement(node.consequent)
             \/ /\ isBlockStatement(node.consequent)
                /\ isReturnStatement(
                     At(node.consequent.body, Len(node.consequent.body) - 1))
  THEN [container |->
          insertAfter(cont0, k, [node EXCEPT !.alternate = Null],
                      IF isBlockStatement(node.alternate) THEN node.alternate.body
                      ELSE <<node.alternate>>),
        replaced |-> FALSE]
  ELSE [container |-> cont0, replaced |-> FALSE]

\* IfStatement.exit[1]
ifExit1(node) ==
  IF ~isIfStatement(node.consequent) THEN node
  ELSE [node EXCEPT !.test = logicalExpression("&&", node.test, node.consequent.test),
                    !.consequent = node.consequent.consequent]

invertTest_AlwaysWraps(test) == unaryExpression("!", test, FALSE)

\* the test IfStatement.exit[2] leaves in the node
invertTest(test) ==
  IF isBinaryExpression(test) /\ test.operator = "!=="
  THEN [test EXCEPT !.operator = "==="]
  ELSE IF isBinaryExpression(test) /\ test.operator = "!="
  THEN [test EXCEPT !.operator = "=="]
  ELSE IF isUnaryNot(test) THEN test.argument
  ELSE unaryExpression("!", test, FALSE)

\* the siblings IfStatement.exit[2] moves into the consequent
consumedSiblings(cont, k) == slice(cont, k + 1)

\* the guard of IfStatement.exit[2]: TRUE when the hook returns at once
ifExit2Returns(node, p) ==
  \/ ~p.inList
  \/ Truthy(node.alternate)
  \/ ~(isReturnStatement(node.consequent) /\ ~Truthy(node.consequent.argument))
  \/ ~p.parentIsFunction

\* the hoist of the Block hook
Block(body) ==
  SelectSeq(body, isFunctionDeclaration)
    \o SelectSeq(body, LAMBDA n : ~isFunctionDeclaration(n))

(***************************************************************************)
(* SpecIf: the exit hooks of one IfStatement.  The state at the start is   *)
(* the one the traversal has reached when the node's children are done:    *)
(* the node sits in a statement list, and that body has been through the   *)
(* Block hook on the way in.                                               *)
(***************************************************************************)
IdA == identifier("a")
IdB == identifier("b")
RetNone == returnStatement(Null)
RetR == returnStatement(identifier("r"))
RetS == returnStatement(identifier("s"))
FunF == functionDeclaration("f")
FunG == functionDeclaration("g")
VarDecl(kind) == variableDeclaration(kind, <<1, 2>>)

IfTests ==
  {identifier("x"), unaryExpression("!", identifier("x"), TRUE)}
  \cup {binaryExpression(op, IdA, IdB) : op \in {"!==", "!=", "=="}}

IfConsequents ==
  {ExprA, RetNone, RetR,
   blockStatement(<<VarDecl("var")>>), blockStatement(<<VarDecl("let")>>),
   blockStatement(<<VarDecl("const")>>),
   blockStatement(<<VarDecl("var"), RetR>>),
   ifStatement(identifier("y"), ExprB, RetS),
   ifStatement(identifier("y"), RetS, Null)}

IfAlternates ==
  {Null, ExprB, RetNone, RetS, blockStatement(<<VarDecl("let")>>), FunG}

SiblingsAfter ==
  SeqsOf({ExprB, RetS, RetNone}, 0, MaxAfter)
SiblingsBefore == {<<>>, <<ExprA>>, <<FunF>>, <<ExprA, FunF>>}

\* the 0-based index of the IfStatement in a list that holds exactly one
keyOfIf(cont) == (CHOOSE i \in 1..Len(cont) : isIfStatement(cont[i])) - 1

InitIf ==
  /\ \E test \in IfTests, c \in IfConsequents, a \in IfAlternates,
        parentIsFunction \in BOOLEAN, isCompletionRecord \in BOOLEAN,
        before \in SiblingsBefore, after \in SiblingsAfter :
       /\ path = [inList |-> TRUE, parentIsFunction |-> parentIsFunction,
                  isCompletionRecord |-> isCompletionRecord]
       /\ container = Block(before \o <<ifStatement(test, c, a)>> \o after)
  /\ key = keyOfIf(container)
  /\ input = container
  /\ pc = "exit0"
  /\ statements = <<>> /\ retStatements = <<>> /\ bailed = FALSE
  /\ tree = Null /\ changed = FALSE /\ firstPass = Null

IfExit0 ==
  /\ pc = "exit0"
  /\ LET res == ifExit0(container, key, path)
     IN /\ container' = res.container
        /\ pc' = IF res.replaced THEN "replaced" ELSE "exit1"
  /\ UNCHANGED <<input, key, path, statements, retStatements, bailed, tree,
                 changed, firstPass>>

IfExit1 ==
  /\ pc = "exit1"
  /\ container' = replaceAt(container, key, ifExit1(At(container, key)))
  /\ pc' = "exit2"
  /\ UNCHANGED <<input, key, path, statements, retStatements, bailed, tree,
                 changed, firstPass>>

IfExit2 ==
  /\ pc = "exit2"
  /\ LET node == At(container, key)
         moved == consumedSiblings(container, key)
         inverted == [node EXCEPT !.test = invertTest(node.test)]
     IN IF ifExit2Returns(node, path)
        THEN /\ pc' = "done"
             /\ UNCHANGED container
        ELSE IF Len(moved) = 0
        THEN /\ container' = removeAt(container, key)
             /\ pc' = "removed"
        ELSE /\ container' =
                  SubSeq(container, 1, key)
                    \o <<[inverted EXCEPT !.consequent =
                            IF Len(moved) = 1 THEN moved[1]
                            ELSE blockStatement(moved)]>>
             /\ pc' = "revisit"
  /\ UNCHANGED <<input, key, path, statements, retStatements, bailed, tree,
                 changed, firstPass>>

NextIf == IfExit0 \/ IfExit1 \/ IfExit2
SpecIf == InitIf /\ [][NextIf]_vars

(***************************************************************************)
(* Claims about the IfStatement exit hooks, checked under SpecIf.          *)
(***************************************************************************)
\* C3: after a rule completes, every node it built or edited is well-formed:
\* no required child is null or undefined, and what stands in statement
\* position is a statement.
C3_RulesBuildWellFormedNodes ==
  \A i \in 1..Len(container) : WellFormedStmt(container[i])

FunctionsFirst(body) ==
  \A i, j \in 1..Len(body) :
    (i < j /\ isFunctionDeclaration(body[j])) => isFunctionDeclaration(body[i])

RECURSIVE BodiesFunctionsFirst(_)
\* every block body inside statement s has its FunctionDeclarations first
BodiesFunctionsFirst(s) ==
  IF isBlockStatement(s)
  THEN FunctionsFirst(s.body)
       /\ \A i \in 1..Len(s.body) : BodiesFunctionsFirst(s.body[i])
  ELSE IF isIfStatement(s)
  THEN BodiesFunctionsFirst(s.consequent) /\ BodiesFunctionsFirst(s.alternate)
  ELSE TRUE

\* C5: in a body that has been through the hoist, all FunctionDeclarations
\* precede all other statements, whatever rules are applied to it later.
C5_FunctionDeclarationsFirst ==
  /\ FunctionsFirst(container)
  /\ \A i \in 1..Len(container) : BodiesFunctionsFirst(container[i])

\* what the cascade's first step is claimed to do with a branch
ClaimedCoerce(branch) ==
  IF /\ isBlockStatement(branch)
     /\ Len(branch.body) = 1
     /\ ~(isVariableDeclaration(branch.body[1])
          /\ branch.body[1].kind \in {"let", "const"})
  THEN branch.body[1]
  ELSE branch

\* C7: a branch that is a block of exactly one statement is replaced by that
\* statement iff the statement is not a let or const declaration.
C7_CoerceKeepsLetConstBlocks ==
  pc = "exit0" =>
    \A k \in {"consequent", "alternate"} :
      coerceIf(At(container, key), k)[k] = ClaimedCoerce(At(container, key)[k])

\* the tests of a (nested) if, taken as opaque truth values
RECURSIVE TestAtoms(_)
TestAtoms(e) ==
  IF e.type = "LogicalExpression" THEN TestAtoms(e.left) \cup TestAtoms(e.right)
  ELSE {e}
RECURSIVE IfAtoms(_)
IfAtoms(s) ==
  IF isIfStatement(s)
  THEN TestAtoms(s.test) \cup IfAtoms(s.consequent) \cup IfAtoms(s.alternate)
  ELSE {}
RECURSIVE EvalTest(_, _)
EvalTest(e, v) ==
  IF e.type = "LogicalExpression"
  THEN IF e.operator = "&&" THEN EvalTest(e.left, v) /\ EvalTest(e.right, v)
       ELSE EvalTest(e.left, v) \/ EvalTest(e.right, v)
  ELSE v[e]
RECURSIVE Executed(_, _)
\* the branch a (nested) if executes under the truth values v; Null when none
Executed(s, v) ==
  IF isIfStatement(s)
  THEN IF EvalTest(s.test, v) THEN Executed(s.consequent, v)
       ELSE Executed(s.alternate, v)
  ELSE s

\* C8: the if-in-if fold is applied only when the consequent is an IfStatement
\* without alternate, and it leaves unchanged which branch runs under which
\* test outcomes.
C8_IfInIfFoldKeepsBranches ==
  [][(pc = "exit1" /\ At(container', key) # At(container, key)) =>
       LET old == At(container, key)
           new == At(container', key)
       IN /\ isIfStatement(old.consequent)
          /\ ~Truthy(old.consequent.alternate)
          /\ \A v \in [IfAtoms(old) -> BOOLEAN] :
               Executed(new, v) = Executed(old, v)]_vars

\* the guard of the invert-and-consume-tail rule, as the claim states it
InFunctionBodyBareReturn ==
  LET node == At(container, key)
  IN /\ path.inList /\ path.parentIsFunction
     /\ ~Truthy(node.alternate)
     /\ isReturnStatement(node.consequent)
     /\ ~Truthy(node.consequent.argument)

\* the inverse the claim states: != / !== and == / === toggled
ClaimedInverse(test) ==
  IF isUnaryNot(test) THEN test.argument
  ELSE IF isBinaryExpression(test) /\ test.operator \in {"!=", "!==", "==", "==="}
  THEN [test EXCEPT !.operator =
          CASE test.operator = "!=" -> "=="
            [] test.operator = "!==" -> "==="
            [] test.operator = "==" -> "!="
            [] test.operator = "===" -> "!=="]
  ELSE unaryExpression("!", test, FALSE)

\* the inverse as amended: only != / !== lose their "!"; == / === are wrapped
AmendedInverse(test) ==
  IF isUnaryNot(test) THEN test.argument
  ELSE IF isBinaryExpression(test) /\ test.operator \in {"!=", "!=="}
  THEN [test EXCEPT !.operator = IF test.operator = "!=" THEN "==" ELSE "==="]
  ELSE unaryExpression("!", test, FALSE)

\* the effect of the rule on the list, with Inverse(_) as the test's inverse
TailConsumed(Inverse(_)) ==
  LET node == At(container, key)
      before == SubSeq(container, 1, key)
      following == SubSeq(container, key + 2, Len(container))
  IN IF following = <<>>
     THEN container' = before
     ELSE /\ Len(container') = key + 1
          /\ SubSeq(container', 1, key) = before
          /\ At(container', key) =
               ifStatement(Inverse(node.test),
                           IF Len(following) = 1 THEN following[1]
                           ELSE blockStatement(following),
                           Null)
          /\ pc' = "revisit"

\* C10 as stated: the test becomes its inverse with != / !== and == / ===
\* toggled, the following siblings (and only they) become the consequent in
\* order, the if ends the list and is revisited; with nothing following, the
\* if is removed.
C10_InvertAndConsumeTail_AsStated ==
  [][(pc = "exit2" /\ InFunctionBodyBareReturn) => TailConsumed(ClaimedInverse)]_vars

\* C10 as amended: as above, but a test with == or === is wrapped in "!"
\* like any other test; only != and !== are toggled.
C10_InvertAndConsumeTail ==
  [][(pc = "exit2" /\ InFunctionBodyBareReturn) => TailConsumed(AmendedInverse)]_vars

\* the rule has run on `if (a == b) return;` followed by two statements
C10_Witness ==
  /\ pc = "revisit"
  /\ LET node == At(container, key)
     IN /\ isBlockStatement(node.consequent)
        /\ Len(node.consequent.body) = 2
        /\ node.test = unaryExpression("!", binaryExpression("==", IdA, IdB), FALSE)
        /\ key > 0

(***************************************************************************)
(* The VariableDeclaration, For and WhileStatement hooks.                  *)
(***************************************************************************)
\* the node kinds the visitor key "For" stands for
isFor(n) == n.type \in {"ForStatement", "ForInStatement", "ForOfStatement"}

RECURSIVE varEnter0(_, _, _)
\* VariableDeclaration.enter[0]: absorb the following siblings of the same kind
varEnter0(cont, k, p) ==
  LET node == At(cont, k)
      sibling == getSibling(cont, p, k + 1)
  IN IF ~p.inList THEN cont
     ELSE IF ~isVariableDeclarationOfKind(sibling, node.kind) THEN cont
     ELSE varEnter0(
            removeAt(replaceAt(cont, k,
                       [node EXCEPT !.declarations = @ \o sibling.declarations]),
                     k + 1),
            k, p)

\* the declarators VariableDeclaration.enter[1] gives the for's init
mergedDeclarations_InitFirst(node, init) == init.declarations \o node.declarations

mergedDeclarations(node, init) == node.declarations \o init.declarations

\* VariableDeclaration.enter[1]: merge into the init of a following for
varEnter1(cont, k, p) ==
  LET node == At(cont, k)
      next == getSibling(cont, p, k + 1)
  IN IF ~p.inList THEN [container |-> cont, removed |-> FALSE]
     ELSE IF ~isForStatement(next) THEN [container |-> cont, removed |-> FALSE]
     ELSE IF ~isVariableDeclarationOfKind(next.init, node.kind)
     THEN [container |-> cont, removed |-> FALSE]
     ELSE [container |->
             removeAt(replaceAt(cont, k + 1,
                        [next EXCEPT !.init.declarations =
                                       mergedDeclarations(node, next.init)]),
                      k),
           removed |-> TRUE]

\* For.enter[0]: a block body of one statement becomes that statement
forEnter0(node) ==
  IF ~Truthy(node.body) \/ ~isBlockStatement(node.body) THEN node
  ELSE IF Len(node.body.body) # 1 THEN node
  ELSE [node EXCEPT !.body = node.body.body[1]]

\* For.enter[1]: fold the previous sibling into init
forEnter1(cont, k, p) ==
  LET node == At(cont, k)
      prev == getSibling(cont, p, k - 1)
      consume(init) ==
        [container |-> removeAt(replaceAt(cont, k, [node EXCEPT !.init = init]), k - 1),
         consumed |-> TRUE]
      untouched == [container |-> cont, consumed |-> FALSE]
  IN IF ~p.inList \/ (Truthy(node.init) /\ ~isExpression(node.init)) THEN untouched
     ELSE IF isVariableDeclaration(prev)
     THEN IF ~Truthy(node.init) THEN consume(prev) ELSE untouched
     ELSE IF isExpressionStatement(prev)
     THEN IF Truthy(node.init)
          THEN IF isSequenceExpression(prev.expression)
               THEN consume([prev.expression EXCEPT
                               !.expressions = Append(@, node.init)])
               ELSE consume(sequenceExpression(<<prev.expression, node.init>>))
          ELSE consume(prev.expression)
     ELSE untouched

\* WhileStatement
whileToFor(node) == forStatement(Null, node.test, Null, node.body)

\* the Program hook: the body is replaced by the folder's output unless empty
Program(body) ==
  IF Len(toMultipleSequenceExpressions(body)) = 0 THEN body
  ELSE toMultipleSequenceExpressions(body)

(***************************************************************************)
(* SpecList: one traversal of a program body made of declarations, loops   *)
(* and expression statements: the body's own hooks on the way in, then the *)
(* hooks of each statement in turn.  A removed node is not visited; a      *)
(* replacement is visited again.                                           *)
(***************************************************************************)
LoopBody == blockStatement(<<ExprB>>)
ListShapes ==
  {variableDeclaration("var", <<>>), variableDeclaration("let", <<>>),
   expressionStatement(identifier("e")),
   forStatement(Null, identifier("t"), Null, LoopBody),
   forStatement(Null, identifier("t"), Null, ExprB),
   forStatement(variableDeclaration("var", <<>>), identifier("t"), Null, LoopBody),
   forStatement(variableDeclaration("let", <<>>), identifier("t"), Null, LoopBody),
   forStatement(identifier("i"), identifier("t"), Null, LoopBody),
   forInStatement(identifier("k"), identifier("o"), LoopBody),
   whileStatement(identifier("t"), LoopBody)}

\* the statement of shape s at position i, its declarator named after i
declaratorOfStatement(i) == 2 * i
declaratorOfInit(i) == 2 * i + 1
stamp(s, i) ==
  IF isVariableDeclaration(s) THEN [s EXCEPT !.declarations = <<declaratorOfStatement(i)>>]
  ELSE IF isForStatement(s) /\ isVariableDeclaration(s.init)
  THEN [s EXCEPT !.init.declarations = <<declaratorOfInit(i)>>]
  ELSE s

InitList ==
  /\ \E shapes \in SeqsOf(ListShapes, 0, MaxList) :
       input = [i \in 1..Len(shapes) |-> stamp(shapes[i], i)]
  /\ container = input
  /\ key = 0
  /\ path = [inList |-> TRUE, parentIsFunction |-> FALSE, isCompletionRecord |-> FALSE]
  /\ pc = "enter"
  /\ statements = <<>> /\ retStatements = <<>> /\ bailed = FALSE
  /\ tree = Null /\ changed = FALSE /\ firstPass = Null

\* the hooks of the body itself: Block (hoist) and Program (fold)
EnterProgram ==
  /\ pc = "enter"
  /\ container' = Program(Block(container))
  /\ pc' = "visit"
  /\ UNCHANGED <<input, key, path, statements, retStatements, bailed, tree,
                 changed, firstPass>>

VisitVariableDeclaration ==
  /\ pc = "visit"
  /\ isVariableDeclaration(At(container, key))
  /\ LET res == varEnter1(varEnter0(container, key, path), key, path)
     IN /\ container' = res.container
        /\ key' = IF res.removed THEN key ELSE key + 1
  /\ UNCHANGED <<input, path, pc, statements, retStatements, bailed, tree,
                 changed, firstPass>>

VisitFor ==
  /\ pc = "visit"
  /\ isFor(At(container, key))
  /\ LET res == forEnter1(replaceAt(container, key, forEnter0(At(container, key))),
                          key, path)
     IN /\ container' = res.container
        /\ key' = IF res.consumed THEN key ELSE key + 1
  /\ UNCHANGED <<input, path, pc, statements, retStatements, bailed, tree,
                 changed, firstPass>>

VisitWhileStatement ==
  /\ pc = "visit"
  /\ At(container, key).type = "WhileStatement"
  /\ container' = replaceWith(container, key, whileToFor(At(container, key)))
  /\ UNCHANGED <<input, key, path, pc, statements, retStatements, bailed, tree,
                 changed, firstPass>>

VisitOther ==
  /\ pc = "visit"
  /\ key < Len(container)
  /\ ~isVariableDeclaration(At(container, key))
  /\ ~isFor(At(container, key))
  /\ At(container, key).type # "WhileStatement"
  /\ key' = key + 1
  /\ UNCHANGED <<input, container, path, pc, statements, retStatements, bailed,
                 tree, changed, firstPass>>

LeaveProgram ==
  /\ pc = "visit"
  /\ ~(key < Len(container))
  /\ pc' = "done"
  /\ UNCHANGED <<input, container, key, path, statements, retStatements, bailed,
                 tree, changed, firstPass>>

NextList ==
  \/ EnterProgram
  \/ VisitVariableDeclaration
  \/ VisitFor
  \/ VisitWhileStatement
  \/ VisitOther
  \/ LeaveProgram
SpecList == InitList /\ [][NextList]_vars

(***************************************************************************)
(* Claims about declarations and loops, checked under SpecList.            *)
(***************************************************************************)
isLoop(n) == isFor(n) \/ n.type = "WhileStatement"
LoopsOf(list) == SelectSeq(list, isLoop)

RECURSIVE Declarators(_)
\* the declarators of a list of declarations, in order
Declarators(decls) ==
  IF decls = <<>> THEN <<>>
  ELSE Head(decls).declarations \o Declarators(Tail(decls))

\* where the maximal run of declarations of kind k that ends at j - 1 starts
RunStart(j, k) ==
  CHOOSE i \in 1..(j - 1) :
    /\ \A t \in i..(j - 1) : isVariableDeclarationOfKind(input[t], k)
    /\ i = 1 \/ ~isVariableDeclarationOfKind(input[i - 1], k)

\* input[j] is a for statement that a run of declarations of its kind precedes
RunBeforeFor(j) ==
  /\ isForStatement(input[j])
  /\ isVariableDeclaration(input[j - 1])
  /\ \/ input[j].init = Null
     \/ isVariableDeclarationOfKind(input[j].init, input[j - 1].kind)

\* the kind of the declaration that held declarator d in the input
OriginalKind(d) ==
  IF d % 2 = 0 THEN input[d \div 2].kind ELSE input[(d - 1) \div 2].init.kind

\* the declarations of a list: its declaration statements and its for inits
DeclarationsIn(list) ==
  {list[t] : t \in {u \in 1..Len(list) : isVariableDeclaration(list[u])}}
  \cup {list[t].init :
          t \in {u \in 1..Len(list) :
                   isForStatement(list[u]) /\ isVariableDeclaration(list[u].init)}}

\* C6: a run of declarations of one kind right before a for statement whose
\* init is absent or a declaration of that kind ends up, in source order and
\* followed by the init's own declarators, as the init of that for statement,
\* and is gone from the list; declarators of different kinds are never put
\* into one declaration.
C6_RunMergedIntoForInit ==
  pc = "done" =>
    /\ \A j \in 2..Len(input) :
         RunBeforeFor(j) =>
           LET k == input[j - 1].kind
               run == SubSeq(input, RunStart(j, k), j - 1)
               own == IF input[j].init = Null THEN <<>>
                      ELSE input[j].init.declarations
               m == Len(LoopsOf(SubSeq(input, 1, j)))
           IN /\ m <= Len(LoopsOf(container))
              /\ LoopsOf(container)[m].type = "ForStatement"
              /\ LoopsOf(container)[m].init =
                   variableDeclaration(k, Declarators(run) \o own)
              /\ \A t \in 1..Len(container) :
                   isVariableDeclaration(container[t]) =>
                     \A a \in 1..Len(container[t].declarations),
                        b \in 1..Len(Declarators(run)) :
                       container[t].declarations[a] # Declarators(run)[b]
    /\ \A decl \in DeclarationsIn(container) :
         \A a \in 1..Len(decl.declarations) :
           OriginalKind(decl.declarations[a]) = decl.kind

\* `var a; var b; for (var c; t;) ...` has become `for (var a, b, c; t;) ...`
C6_Witness ==
  /\ pc = "done"
  /\ Len(input) = 3
  /\ isVariableDeclarationOfKind(input[1], "var")
  /\ isVariableDeclarationOfKind(input[2], "var")
  /\ isForStatement(input[3])
  /\ isVariableDeclarationOfKind(input[3].init, "var")
  /\ Len(container) = 1
  /\ container[1].init =
       variableDeclaration("var", <<declaratorOfStatement(1),
                                    declaratorOfStatement(2), declaratorOfInit(3)>>)

\* the expressions of e when it is a sequence, e itself otherwise
ExpressionsOf(e) == IF isSequenceExpression(e) THEN e.expressions ELSE <<e>>

\* C9: the fold-previous-sibling-into-init rule removes the previous sibling
\* only for a ForStatement in a list whose init is absent or an expression,
\* and what it removes becomes (the leading part of) that statement's init.
C9_PreviousSiblingSurvivesInInit ==
  [][(pc = "visit" /\ isFor(At(container, key))
        /\ Len(container') < Len(container)) =>
       LET node == At(container, key)
           prev == At(container, key - 1)
           new == At(container', key - 1)
       IN /\ node.type = "ForStatement"
          /\ path.inList
          /\ ~Truthy(node.init) \/ isExpression(node.init)
          /\ new.type = "ForStatement"
          /\ IF isVariableDeclaration(prev)
             THEN ~Truthy(node.init) /\ new.init = prev
             ELSE /\ isExpressionStatement(prev)
                  /\ IF Truthy(node.init)
                     THEN new.init = sequenceExpression(
                            ExpressionsOf(prev.expression) \o <<node.init>>)
                     ELSE new.init = prev.expression]_vars

(***************************************************************************)
(* The expression hooks, and the BlockStatement hook.                      *)
(***************************************************************************)
EQUALITY_BINARY_OPERATORS == {"==", "===", "!=", "!=="}

\* path.isPure(): evaluating the node has no side effect and cannot throw
isPure(n) == n.type = "Literal"

isBoolean(value) == value \in {"true", "false"}
\* path.baseTypeStrictlyMatches(other): both provably of one primitive type
baseTypeStrictlyMatches(l, r) ==
  /\ l.type = "Literal" /\ r.type = "Literal"
  /\ isBoolean(l.value) = isBoolean(r.value)

\* BinaryExpression.enter[0]: flip a comparison whose right operand is pure
binaryEnter0(node) ==
  IF node.operator \in EQUALITY_BINARY_OPERATORS /\ isPure(node.right)
  THEN [node EXCEPT !.left = node.right, !.right = node.left]
  ELSE node

\* BinaryExpression.enter[1]: strict to loose when the base types match
binaryEnter1(node) ==
  IF node.operator # "===" /\ node.operator # "!==" THEN node
  ELSE IF baseTypeStrictlyMatches(node.left, node.right)
  THEN [node EXCEPT !.operator = IF node.operator = "===" THEN "==" ELSE "!="]
  ELSE node

\* LogicalExpression
logicalEnter(node) ==
  IF node.operator = "&&" /\ isUnaryNot(node.left)
  THEN [node EXCEPT !.operator = "||", !.left = node.left.argument]
  ELSE node

\* Literal: the replacement of a boolean literal, Undefined for no replacement
literalHook(node) ==
  IF isBoolean(node.value)
  THEN unaryExpression("!", literal(IF node.value = "true" THEN "0" ELSE "1"), TRUE)
  ELSE Undefined

\* ReferencedIdentifier
referencedIdentifierHook(node) ==
  IF node.name = "undefined" THEN VOID_0 ELSE Undefined

\* BlockStatement: the replacement the hook returns, Undefined for none
blockStatementHook(node, parentType) ==
  LET stmts == toMultipleSequenceExpressions(node.body)
  IN IF Len(stmts) = 0 THEN Undefined
     ELSE IF \/ Len(stmts) > 1
             \/ parentType \in {"FunctionDeclaration", "FunctionExpression"}
             \/ parentType = "TryStatement" \/ parentType = "CatchClause"
     THEN blockStatement(stmts)
     ELSE stmts[1]

(***************************************************************************)
(* SpecDrive: the traversal driver on one node.  A hook that returns a     *)
(* replacement has the replacement visited again from its enter phase; a   *)
(* pass in which a rule changed the tree is followed by another pass.      *)
(***************************************************************************)
Lit1 == literal("1")
Lit2 == literal("2")
IdX == identifier("x")

DriveTrees ==
  {binaryExpression(op, l, r) :
     op \in EQUALITY_BINARY_OPERATORS \cup {"+"}, l \in {Lit1, Lit2, IdX},
     r \in {Lit1, Lit2, IdX}}
  \cup {blockStatement(b) :
          b \in SeqsOf({ExprA, ExprB, debuggerStatement}, 0, MaxBlockLen)}
  \cup {whileStatement(IdX, ExprA)}

ParentTypes == {"FunctionDeclaration", "TryStatement", "IfStatement"}

InitDrive ==
  /\ tree \in DriveTrees
  /\ \E parentType \in ParentTypes :
       /\ isBlockStatement(tree) \/ parentType = "IfStatement"
       /\ path = [inList |-> FALSE, parentType |-> parentType]
  /\ input = tree
  /\ pc = "enter"
  /\ changed = FALSE
  /\ firstPass = Null
  /\ container = <<>> /\ key = 0
  /\ statements = <<>> /\ retStatements = <<>> /\ bailed = FALSE

\* the replacement the enter hooks of the node's kind return, Undefined for none
enterReplacement(node, parentType) ==
  IF isBlockStatement(node) THEN blockStatementHook(node, parentType)
  ELSE IF node.type = "WhileStatement" THEN whileToFor(node)
  ELSE Undefined

\* the node after the enter hooks that edit it in place
enterEdited(node) ==
  IF isBinaryExpression(node) THEN binaryEnter1(binaryEnter0(node)) ELSE node

\* the enter hooks of the node run
DriveEnter ==
  /\ pc = "enter"
  /\ IF Truthy(enterReplacement(tree, path.parentType))
     THEN /\ tree' = enterReplacement(tree, path.parentType)
          /\ changed' = TRUE
          /\ pc' = "replaced"
     ELSE /\ tree' = enterEdited(tree)
          /\ changed' = (changed \/ enterEdited(tree) # tree)
          /\ pc' = "exit"
  /\ UNCHANGED <<input, container, key, path, statements, retStatements, bailed,
                 firstPass>>

\* the driver visits a replacement again, from its enter phase
DriveRevisit ==
  /\ pc = "replaced"
  /\ pc' = "enter"
  /\ UNCHANGED <<input, container, key, path, statements, retStatements, bailed,
                 tree, changed, firstPass>>

\* the node is left (none of these kinds has an exit hook): the pass ends
DriveExit ==
  /\ pc = "exit"
  /\ pc' = "passEnd"
  /\ UNCHANGED <<input, container, key, path, statements, retStatements, bailed,
                 tree, changed, firstPass>>

\* a rule changed the tree in this pass: drive again
DriveAgain ==
  /\ pc = "passEnd"
  /\ changed
  /\ changed' = FALSE
  /\ pc' = "enter"
  /\ UNCHANGED <<input, container, key, path, statements, retStatements, bailed,
                 tree, firstPass>>

\* quiescence
DriveQuiesce ==
  /\ pc = "passEnd"
  /\ ~changed
  /\ pc' = "done"
  /\ UNCHANGED <<input, container, key, path, statements, retStatements, bailed,
                 tree, changed, firstPass>>

NextDrive == DriveEnter \/ DriveRevisit \/ DriveExit \/ DriveAgain \/ DriveQuiesce
\* the driver is a sequential program: it takes its next step when it has one
SpecDrive == InitDrive /\ [][NextDrive]_vars /\ WF_vars(NextDrive)

\* C1: driving the rules, with replacements visited again and passes repeated
\* until no rule changes the tree, terminates on every input.
C1_DriverTerminates == <>(pc = "done")

(***************************************************************************)
(* SpecIdem: the pass run twice on an expression.                          *)
(***************************************************************************)
RECURSIVE visit(_)
\* one traversal of an expression: the enter hooks of the node (a replacement
\* is visited in its place), then its children in source order
visit(node) ==
  IF node.type = "Identifier"
  THEN IF Truthy(referencedIdentifierHook(node))
       THEN visit(referencedIdentifierHook(node)) ELSE node
  ELSE IF node.type = "Literal"
  THEN IF Truthy(literalHook(node)) THEN visit(literalHook(node)) ELSE node
  ELSE IF node.type = "UnaryExpression"
  THEN [node EXCEPT !.argument = visit(node.argument)]
  ELSE IF node.type = "BinaryExpression"
  THEN LET n == binaryEnter1(binaryEnter0(node))
       IN [n EXCEPT !.left = visit(n.left), !.right = visit(n.right)]
  ELSE IF node.type = "LogicalExpression"
  THEN LET n == logicalEnter(node)
       IN [n EXCEPT !.left = visit(n.left), !.right = visit(n.right)]
  ELSE IF node.type = "ConditionalExpression"
  THEN LET n == flipNegation(node)
       IN [n EXCEPT !.test = visit(n.test), !.consequent = visit(n.consequent),
                    !.alternate = visit(n.alternate)]
  ELSE node

simplify(t) == visit(t)

IdemLeaves == {IdX, Lit1, Lit2, literal("true"), identifier("undefined")}
IdemTests == {IdX, unaryExpression("!", IdX, TRUE),
              unaryExpression("!", unaryExpression("!", IdX, TRUE), TRUE)}
IdemTrees ==
  IdemLeaves
  \cup IdemTests
  \cup {binaryExpression(op, l, r) :
          op \in {"===", "!=", "<"}, l \in IdemLeaves, r \in IdemLeaves}
  \cup {logicalExpression(op, l, IdX) : op \in {"&&", "||"}, l \in IdemTests}
  \cup {conditionalExpression(t, Lit1, Lit2) :
          t \in IdemTests \cup {binaryExpression("!==", IdX, Lit1)}}

InitIdem ==
  /\ input \in IdemTrees
  /\ tree = input
  /\ firstPass = Null
  /\ pc = "input"
  /\ changed = FALSE
  /\ path = [inList |-> FALSE]
  /\ container = <<>> /\ key = 0
  /\ statements = <<>> /\ retStatements = <<>> /\ bailed = FALSE

SimplifyOnce ==
  /\ pc = "input"
  /\ tree' = simplify(tree)
  /\ firstPass' = simplify(tree)
  /\ pc' = "once"
  /\ UNCHANGED <<input, container, key, path, statements, retStatements, bailed,
                 changed>>

SimplifyAgain ==
  /\ pc = "once"
  /\ tree' = simplify(tree)
  /\ pc' = "twice"
  /\ UNCHANGED <<input, container, key, path, statements, retStatements, bailed,
                 changed, firstPass>>

NextIdem == SimplifyOnce \/ SimplifyAgain
SpecIdem == InitIdem /\ [][NextIdem]_vars

\* C2: simplify is idempotent: simplify(simplify(t)) = simplify(t).
C2_SimplifyIdempotent == pc = "twice" => tree = firstPass

====
